---- MODULE Spec2Model ----
(***************************************************************************)
(* tailr (src/tailr/src/lib_mysol2.rs): the tail-window selection engine.  *)
(*                                                                         *)
(* get_start_index maps a TakeValue request and a total unit count to an   *)
(* optional zero-based start index; run counts each source, resolves the   *)
(* start index and emits the window in line mode or byte mode.             *)
(*                                                                         *)
(* Rust's i64/u64 are modelled at a reduced width of IntBits bits: every   *)
(* definition below is written against MinI64/MaxI64, so the boundary      *)
(* cases (the most-negative value, total + magnitude past the maximum) are *)
(* the same cases as at 64 bits.                                           *)
(***************************************************************************)
EXTENDS Integers, Sequences, FiniteSets, TLC

\* Width of the modelled i64 / u64 (64 in the code).
IntBits == 6

\* Longest content, in bytes, of a source processed on its own.
MaxLen == 3

\* Most sources in one run, and the longest content of a source in a batch.
MaxFiles == 2

MaxBatchLen == 1

\* Longest token handed to parse_num, in characters.
MaxTok == 3

\* The default of --lines ("10", parsed as a count from the end).
DefaultLines == 10

Pow2(k) == 2 ^ k

MinI64 == -Pow2(IntBits - 1)

MaxI64 == Pow2(IntBits - 1) - 1

I64 == MinI64 .. MaxI64

\* Two's-complement wrap of a mathematical integer into i64.
WrapI64(x) == ((x - MinI64) % Pow2(IntBits)) + MinI64

\* `x as u64` for an i64 x: reinterpretation of the bit pattern.
AsU64(x) == x % Pow2(IntBits)

\* i64::wrapping_neg
WrappingNeg(n) == WrapI64(-n)

\* u64::saturating_sub
SaturatingSub(a, b) == IF a >= b THEN a - b ELSE 0

(***************************************************************************)
(* enum TakeValue { PlusZero, TakeNum(i64) } and Option<u64>.              *)
(***************************************************************************)
PlusZero == [tag |-> "PlusZero", n |-> 0]

TakeNum(n) == [tag |-> "TakeNum", n |-> n]

TakeValue == {PlusZero} \cup {TakeNum(n) : n \in I64}

None == [some |-> FALSE, v |-> 0]

Some(i) == [some |-> TRUE, v |-> i]

(***************************************************************************)
(* get_start_index.  total - n is an unchecked i64 subtraction: a build    *)
(* with overflow checks panics when it leaves i64, a build without them    *)
(* wraps.  The result records which of the two happened.                   *)
(*   overflow : some intermediate result left the range of its type        *)
(*   panic    : the call panicked instead of returning                     *)
(*   ret      : the returned Option<u64> (None when panic)                 *)
(***************************************************************************)
ExceedDiff(take_val, total) == total - take_val.n

\* Variant of the guard that forgets the exceed check (keeps only n == 0).
ExceedOrTakeZero_NoExceed(take_val, total) ==
    take_val.tag = "TakeNum" /\ take_val.n = 0

\* Variant of the guard that forgets the n == 0 check (keeps only the exceed check).
ExceedOrTakeZero_NoZero(take_val, total) ==
    take_val.tag = "TakeNum" /\ WrapI64(ExceedDiff(take_val, total)) < 0

ExceedOrTakeZero(take_val, total) ==
    IF take_val.tag = "TakeNum"
    THEN WrapI64(ExceedDiff(take_val, total)) < 0 \/ take_val.n = 0
    ELSE FALSE

\* Variant that forgets the 1-based to 0-based conversion.
StartIndexValue_NoMinusOne(take_val, total) ==
    IF take_val.tag = "PlusZero" THEN 0
    ELSE IF take_val.n > 0 THEN AsU64(take_val.n)
    ELSE SaturatingSub(AsU64(total), AsU64(WrappingNeg(take_val.n)))

\* Variant that starts PlusZero at the last unit instead of the first.
StartIndexValue_PlusZeroLast(take_val, total) ==
    IF take_val.tag = "PlusZero" THEN AsU64(total) - 1
    ELSE IF take_val.n > 0 THEN AsU64(take_val.n) - 1
    ELSE SaturatingSub(AsU64(total), AsU64(WrappingNeg(take_val.n)))

\* Variant whose subtraction from the end wraps instead of saturating.
StartIndexValue_WrappingSub(take_val, total) ==
    IF take_val.tag = "PlusZero" THEN 0
    ELSE IF take_val.n > 0 THEN AsU64(take_val.n) - 1
    ELSE AsU64(AsU64(total) - AsU64(WrappingNeg(take_val.n)))

StartIndexValue(take_val, total) ==
    IF take_val.tag = "PlusZero" THEN 0
    ELSE IF take_val.n > 0 THEN AsU64(take_val.n) - 1
    ELSE SaturatingSub(AsU64(total), AsU64(WrappingNeg(take_val.n)))

get_start_index(take_val, total, overflow_checks) ==
    LET empty == (total = 0)
        ovf   == take_val.tag = "TakeNum" /\ ExceedDiff(take_val, total) \notin I64
    IN  IF ovf /\ overflow_checks
        THEN [overflow |-> TRUE, panic |-> TRUE, ret |-> None]
        ELSE [overflow |-> ovf, panic |-> FALSE,
              ret |-> IF ~empty /\ ~ExceedOrTakeZero(take_val, total)
                      THEN Some(StartIndexValue(take_val, total))
                      ELSE None]

(***************************************************************************)
(* parse_num.  A token is a sequence of characters: the signs, the ASCII   *)
(* digits, "u" (a decimal digit that is not ASCII, such as U+0663), and    *)
(* ".", "_", " ", "e" for everything else.                                 *)
(***************************************************************************)
AsciiDigit == {"0", "1", "2", "3", "4", "5", "6", "7", "8", "9"}

DigitChars == <<"0", "1", "2", "3", "4", "5", "6", "7", "8", "9">>

Char == AsciiDigit \cup {"+", "-", "u", ".", "_", " ", "e"}

Tokens(k) == UNION {[1 .. m -> Char] : m \in 0 .. k}

\* char::to_digit(10)
DigitVal(c) == CHOOSE d \in 0 .. 9 : DigitChars[d + 1] = c

\* i64::to_string of a non-negative number (the tests build tokens with it).
RECURSIVE Decimal(_)
Decimal(n) ==
    IF n < 10 THEN <<DigitChars[n + 1]>>
    ELSE Decimal(n \div 10) \o <<DigitChars[(n % 10) + 1]>>

\* \d of the regex crate is Unicode-aware: any decimal digit.
RegexDigit == AsciiDigit \cup {"u"}

\* Variant of the pattern without its end anchor: ([+-])?(\d+) at the start.
RECURSIVE DigitRun(_)
DigitRun(cs) ==
    IF cs # <<>> /\ Head(cs) \in RegexDigit THEN <<Head(cs)>> \o DigitRun(Tail(cs))
    ELSE <<>>

RegexCaptures_NoEndAnchor(val) ==
    LET has_sign == val # <<>> /\ val[1] \in {"+", "-"}
        digits   == DigitRun(IF has_sign THEN Tail(val) ELSE val)
    IN  [matched |-> digits # <<>>,
         sign    |-> IF has_sign THEN val[1] ELSE "",
         digits  |-> digits]

\* num_re.captures(val) for ^([+-])?(\d+)$ (and ^(-|\+)?(\d+)$): group 1 is
\* "" when the sign is absent, group 2 the digits.
RegexCaptures(val) ==
    LET has_sign == val # <<>> /\ val[1] \in {"+", "-"}
        digits   == IF has_sign THEN Tail(val) ELSE val
    IN  [matched |-> digits # <<>> /\ \A i \in 1 .. Len(digits) : digits[i] \in RegexDigit,
         sign    |-> IF has_sign THEN val[1] ELSE "",
         digits  |-> digits]

\* caps.get(1).map_or("-", ..): a token without a sign counts from the end.
DefaultSign_Plus == "+"

DefaultSign == "-"

\* str::parse::<i64>: the digits are accumulated with checked arithmetic,
\* downwards for a negative number, so that i64::MIN parses.
RECURSIVE Accumulate(_, _, _)
Accumulate(digits, r, neg) ==
    IF digits = <<>> THEN [ok |-> TRUE, v |-> r]
    ELSE IF Head(digits) \notin AsciiDigit THEN [ok |-> FALSE, v |-> 0]
    ELSE LET r10 == r * 10
             nxt == IF neg THEN r10 - DigitVal(Head(digits))
                    ELSE r10 + DigitVal(Head(digits))
         IN  IF r10 \notin I64 \/ nxt \notin I64 THEN [ok |-> FALSE, v |-> 0]
             ELSE Accumulate(Tail(digits), nxt, neg)

\* Variant of the accumulation with wrapping arithmetic.
RECURSIVE AccumulateWrapping(_, _, _)
AccumulateWrapping(digits, r, neg) ==
    IF digits = <<>> THEN [ok |-> TRUE, v |-> r]
    ELSE IF Head(digits) \notin AsciiDigit THEN [ok |-> FALSE, v |-> 0]
    ELSE AccumulateWrapping(Tail(digits),
                            WrapI64(IF neg THEN r * 10 - DigitVal(Head(digits))
                                    ELSE r * 10 + DigitVal(Head(digits))),
                            neg)

\* Variant that accumulates the magnitude upwards and negates it afterwards.
ParseI64_NegateAfter(str) ==
    IF str = <<>> \/ str = <<"+">> \/ str = <<"-">> THEN [ok |-> FALSE, v |-> 0]
    ELSE IF str[1] \in {"+", "-"}
    THEN LET m == Accumulate(Tail(str), 0, FALSE)
         IN  [ok |-> m.ok, v |-> IF str[1] = "-" THEN -m.v ELSE m.v]
    ELSE Accumulate(str, 0, FALSE)

ParseI64_Wrapping(str) ==
    IF str = <<>> \/ str = <<"+">> \/ str = <<"-">> THEN [ok |-> FALSE, v |-> 0]
    ELSE IF str[1] \in {"+", "-"} THEN AccumulateWrapping(Tail(str), 0, str[1] = "-")
    ELSE AccumulateWrapping(str, 0, FALSE)

ParseI64(str) ==
    IF str = <<>> \/ str = <<"+">> \/ str = <<"-">> THEN [ok |-> FALSE, v |-> 0]
    ELSE IF str[1] \in {"+", "-"} THEN Accumulate(Tail(str), 0, str[1] = "-")
    ELSE Accumulate(str, 0, FALSE)

\* Result<TakeValue, Box<dyn Error>>; the error's text is a token.
ParseOk(v) == [st |-> "ok", val |-> v, err |-> <<>>]

ParseErr(text) == [st |-> "err", val |-> PlusZero, err |-> text]

\* Err(From::from(val)): the error is made of the token handed in, not of
\* the re-signed string `num`.
ParseError_Resigned(val, num) == ParseErr(num)

ParseError(val, num) == ParseErr(val)

\* if sign == "+" && val == 0 (lib_mysol2.rs)
IsPlusZero_AnySign(sign, v) == v = 0

IsPlusZero(sign, v) == sign = "+" /\ v = 0

\* parse_num of lib_mysol2.rs
parse_num(val) ==
    LET caps == RegexCaptures(val)
    IN  IF ~caps.matched THEN ParseError(val, val)
        ELSE LET sign == IF caps.sign = "" THEN DefaultSign ELSE caps.sign
                 num  == <<sign>> \o caps.digits
                 r    == ParseI64(num)
             IN  IF r.ok
                 THEN IF IsPlusZero(sign, r.v) THEN ParseOk(PlusZero)
                      ELSE ParseOk(TakeNum(r.v))
                 ELSE ParseError(val, num)

\* parse_num of lib_mysol1.rs: ("+", "0") is matched on the text.
parse_num_mysol1(val) ==
    LET caps == RegexCaptures(val)
    IN  IF ~caps.matched THEN ParseError(val, val)
        ELSE LET sign == IF caps.sign = "" THEN DefaultSign ELSE caps.sign
                 num  == <<sign>> \o caps.digits
                 r    == ParseI64(num)
             IN  IF sign = "+" /\ caps.digits = <<"0">> THEN ParseOk(PlusZero)
                 ELSE IF r.ok THEN ParseOk(TakeNum(r.v))
                 ELSE ParseError(val, num)

(***************************************************************************)
(* Sources.  A byte is "a" (an ASCII character), "nl" (the line feed) or   *)
(* "x" (a byte that is never valid UTF-8, such as 0xFF).  Decoded text may *)
(* also hold "fffd", the replacement character.                            *)
(***************************************************************************)
Byte == {"a", "nl", "x"}

Contents(k) == UNION {[1 .. m -> Byte] : m \in 0 .. k}

\* Index of the first line feed of d at or after i, or Len(d) when none.
RECURSIVE LineEnd(_, _)
LineEnd(d, i) ==
    IF i >= Len(d) \/ d[i] = "nl" THEN i ELSE LineEnd(d, i + 1)

\* BufRead::read_line / BufRead::lines cut the source after each line feed;
\* a final line without a line feed is a line too.
RECURSIVE SplitLines(_)
SplitLines(d) ==
    IF d = <<>> THEN <<>>
    ELSE LET k == LineEnd(d, 1)
         IN  <<SubSeq(d, 1, k)>> \o SplitLines(SubSeq(d, k + 1, Len(d)))

ValidUtf8(bs) == \A i \in 1 .. Len(bs) : bs[i] # "x"

\* String::from_utf8_lossy: every invalid byte becomes U+FFFD.
FromUtf8Lossy(bs) == [i \in 1 .. Len(bs) |-> IF bs[i] = "x" THEN "fffd" ELSE bs[i]]

(***************************************************************************)
(* Read faults.  Every pass reads through a BufReader whose buffer holds    *)
(* the whole source, so the reads that reach the file are the first one     *)
(* and the one that finds the end.  At most one of them fails per source,   *)
(* once (the retry succeeds): in the line-counting pass, the byte-counting  *)
(* pass or the emission pass.  A failed read consumes nothing.              *)
(***************************************************************************)
NoFault == [pass |-> "none", at |-> "first"]

IoFaults ==
    {NoFault} \cup
    {[pass |-> p, at |-> a] : p \in {"count_lines", "count_bytes", "emit"},
                              a \in {"first", "last"}}

\* Where the pass `p` meets the fault `io`: "none", "first" or "last".
FaultAt(io, p) == IF io.pass = p THEN io.at ELSE "none"

ErrByte == [ok |-> FALSE, unit |-> "a"]

ErrLine == [ok |-> FALSE, unit |-> <<>>]

\* The items of Read::bytes: Ok(byte) per byte, and Err where a read fails
\* (Bytes::next returns the error and the next call reads again).
ByteItems(data, at) ==
    LET oks == [i \in 1 .. Len(data) |-> [ok |-> TRUE, unit |-> data[i]]]
    IN  IF at = "first" THEN <<ErrByte>> \o oks
        ELSE IF at = "last" THEN oks \o <<ErrByte>>
        ELSE oks

\* The results of successive read_line calls (the items of BufRead::lines):
\* Err(InvalidData) for a line that is not UTF-8 (the line is consumed), Err
\* where a read fails.  A fault at the end hits the call that is reading a
\* final line without a line feed (its bytes are consumed and lost), or
\* else the call after the last line.
LineItems(data, at) ==
    LET ls  == SplitLines(data)
        its == [i \in 1 .. Len(ls) |->
                   IF ValidUtf8(ls[i]) THEN [ok |-> TRUE, unit |-> ls[i]] ELSE ErrLine]
    IN  IF at = "first" THEN <<ErrLine>> \o its
        ELSE IF at = "last"
        THEN IF data # <<>> /\ data[Len(data)] # "nl"
             THEN SubSeq(its, 1, Len(its) - 1) \o <<ErrLine>>
             ELSE its \o <<ErrLine>>
        ELSE its

\* The result of the read_line call that follows `pos` calls already made:
\* Ok(0) at the end, Err, or the line.
read_line(items, pos) ==
    IF pos >= Len(items) THEN [kind |-> "eof", line |-> <<>>]
    ELSE IF ~items[pos + 1].ok THEN [kind |-> "err", line |-> <<>>]
    ELSE [kind |-> "ok", line |-> items[pos + 1].unit]

\* count_lines_bytes: lines().count() and bytes().count() count every item
\* of the iterator, Ok or Err.
count_lines_bytes(data, io) ==
    [lines |-> Len(LineItems(data, FaultAt(io, "count_lines"))),
     bytes |-> Len(ByteItems(data, FaultAt(io, "count_bytes")))]

HasErr(items) == \E i \in 1 .. Len(items) : ~items[i].ok

\* Whether a counting pass met a read that returned Err.
CountPassReadErr(data, io) ==
    \/ HasErr(LineItems(data, FaultAt(io, "count_lines")))
    \/ HasErr(ByteItems(data, FaultAt(io, "count_bytes")))

\* filter_map(Result::ok).collect(): the Ok items, in order.
RECURSIVE OkUnits(_)
OkUnits(items) ==
    IF items = <<>> THEN <<>>
    ELSE (IF Head(items).ok THEN <<Head(items).unit>> ELSE <<>>) \o OkUnits(Tail(items))

\* bytes().skip(n).filter_map(Result::ok).collect(): skip drops the first n
\* items, Ok or Err.
SkipBytes(items, n) ==
    IF n >= Len(items) THEN <<>> ELSE OkUnits(SubSeq(items, n + 1, Len(items)))

(***************************************************************************)
(* State.                                                                  *)
(*   req, total, out     : the arguments and result of the last            *)
(*                         get_start_index call                            *)
(*   overflow_checks     : the build profile                               *)
(*   rpc                 : position of the stand-alone resolver call       *)
(*   num_files, lines_cfg, bytes_cfg, quiet : Config                       *)
(*   file_num, pc        : position of run's loop                          *)
(*   cur                 : content of the source opened last               *)
(*   io                  : the read fault that source meets                *)
(*   total_lines, total_bytes : result of count_lines_bytes                *)
(*   start, counter, pos : locals of print_lines (n, counter, lines read)  *)
(*   reads               : read calls made on the emission reader          *)
(*   stdout, stderr      : writes so far                                   *)
(*   status              : outcome per source visited so far               *)
(*   read_errs           : <<source, pass>> pairs where a read returned Err *)
(*   result              : run's result                                    *)
(*   tok                 : the token handed to parse_num                   *)
(*   p1, p2              : what parse_num returned for it, in lib_mysol1.rs *)
(*                         and in lib_mysol2.rs                            *)
(***************************************************************************)
VARIABLES req, total, overflow_checks, out, rpc,
          num_files, lines_cfg, bytes_cfg, quiet,
          file_num, pc, cur, io, total_lines, total_bytes,
          start, counter, pos, reads,
          stdout, stderr, status, read_errs, result,
          tok, p1, p2

pvars == <<tok, p1, p2>>

rvars == <<req, total, overflow_checks, out, rpc>>

cfgvars == <<num_files, lines_cfg, bytes_cfg, quiet, overflow_checks>>

runvars == <<num_files, lines_cfg, bytes_cfg, quiet,
             file_num, pc, cur, io, total_lines, total_bytes,
             start, counter, pos, reads,
             stdout, stderr, status, read_errs, result>>

vars == <<req, total, overflow_checks, out, rpc,
          num_files, lines_cfg, bytes_cfg, quiet,
          file_num, pc, cur, io, total_lines, total_bytes,
          start, counter, pos, reads,
          stdout, stderr, status, read_errs, result,
          tok, p1, p2>>

NoOut == [overflow |-> FALSE, panic |-> FALSE, ret |-> None]

NoBytes == [some |-> FALSE, val |-> PlusZero]

SomeBytes(v) == [some |-> TRUE, val |-> v]

\* No parse_num call is in progress.
NotParsing == [st |-> "idle", val |-> PlusZero, err |-> <<>>]

Unparsed == [st |-> "call", val |-> PlusZero, err |-> <<>>]

ParseIdle ==
    /\ tok = <<>>
    /\ p1 = NotParsing
    /\ p2 = NotParsing

\* run's state before its first loop iteration.
RunStart ==
    /\ file_num = 0
    /\ pc = "open"
    /\ cur = <<>>
    /\ io = NoFault
    /\ total_lines = 0
    /\ total_bytes = 0
    /\ start = 0
    /\ counter = 0
    /\ pos = 0
    /\ reads = 0
    /\ stdout = <<>>
    /\ stderr = <<>>
    /\ status = <<>>
    /\ read_errs = {}
    /\ result = "running"

(***************************************************************************)
(* The resolver on its own: every request, every non-negative total,       *)
(* either build profile.                                                   *)
(***************************************************************************)
ResolveInit ==
    /\ req \in TakeValue
    /\ total \in 0 .. MaxI64
    /\ overflow_checks \in BOOLEAN
    /\ out = NoOut
    /\ rpc = "call"
    /\ num_files = 0
    /\ lines_cfg = TakeNum(-DefaultLines)
    /\ bytes_cfg = NoBytes
    /\ quiet = FALSE
    /\ RunStart
    /\ ParseIdle

Resolve ==
    /\ rpc = "call"
    /\ out' = get_start_index(req, total, overflow_checks)
    /\ rpc' = "done"
    /\ UNCHANGED <<req, total, overflow_checks>>
    /\ UNCHANGED runvars
    /\ UNCHANGED pvars

ResolveNext == Resolve

SpecResolve == ResolveInit /\ [][ResolveNext]_vars

(***************************************************************************)
(* run.  A single source is explored with every content up to MaxLen bytes *)
(* and the requests around that length; a batch of several sources with    *)
(* contents up to MaxBatchLen bytes and one request of each kind.          *)
(* OpenOk draws the content of a source, and the read fault it meets, when *)
(* run opens it.                                                           *)
(* Config is what get_args builds: --bytes conflicts with --lines, so a    *)
(* byte count comes with the default line count.                           *)
(***************************************************************************)
SourceRequests ==
    {PlusZero} \cup
    {TakeNum(n) : n \in {MinI64, MinI64 + 1, MaxI64} \cup (-(MaxLen + 1) .. (MaxLen + 1))}

BatchRequests == {PlusZero, TakeNum(0), TakeNum(-1), TakeNum(MinI64)}

Requests(k) == IF k = 1 THEN SourceRequests ELSE BatchRequests

SourceBound(k) == IF k = 1 THEN MaxLen ELSE MaxBatchLen

\* The read faults explored: all of them for a single source, the first
\* read of the emission pass for a source of a batch.
Faults(k) == IF k = 1 THEN IoFaults ELSE {NoFault, [pass |-> "emit", at |-> "first"]}

Init ==
    /\ num_files \in 1 .. MaxFiles
    /\ overflow_checks \in BOOLEAN
    /\ quiet \in BOOLEAN
    /\ \/ bytes_cfg = NoBytes /\ lines_cfg \in Requests(num_files)
       \/ /\ lines_cfg = TakeNum(-DefaultLines)
          /\ bytes_cfg \in {SomeBytes(v) : v \in Requests(num_files)}
    /\ req = PlusZero
    /\ total = 0
    /\ out = NoOut
    /\ rpc = "idle"
    /\ RunStart
    /\ ParseIdle

\* println!("{}==> {} <==", if file_num > 0 { "\n" } else { "" }, filename)
Header(i) == [file |-> i, kind |-> "header", sep |-> (i > 0), text |-> <<>>]

\* print!("{}", text)
Text(i, t) == [file |-> i, kind |-> "text", sep |-> FALSE, text |-> t]

\* if let Some(n) = get_start_index(..): the emitter reads and writes only
\* for a Some.
EmitsWindow_Always(ret) == TRUE

EmitsWindow(ret) == ret.some

\* if counter < n: the line is dropped.
SkipsLine_Inclusive(c, n) == c <= n

SkipsLine(c, n) == c < n

\* The emitter returned Ok(()): the loop goes on to the next source.
SourceDone ==
    /\ file_num' = file_num + 1
    /\ pc' = "open"
    /\ status' = Append(status, "ok")
    /\ result' = result

\* `?` on an Err, or a panic: run ends here.
RunAborts(how) ==
    /\ file_num' = file_num
    /\ pc' = "done"
    /\ status' = Append(status, how)
    /\ result' = how

\* Variant that returns the open error from run (File::open(filename)?).
OpenErr_Aborts ==
    /\ pc = "open"
    /\ file_num < num_files
    /\ stderr' = Append(stderr, file_num)
    /\ RunAborts("open_err")
    /\ UNCHANGED <<cur, io, total_lines, total_bytes, start, counter, pos, reads,
                   stdout, read_errs>>
    /\ UNCHANGED <<cfgvars, req, total, out, rpc, pvars>>

\* File::open(filename) fails: a diagnostic on stderr, then the next source.
OpenErr ==
    /\ pc = "open"
    /\ file_num < num_files
    /\ stderr' = Append(stderr, file_num)
    /\ file_num' = file_num + 1
    /\ status' = Append(status, "open_err")
    /\ UNCHANGED <<pc, cur, io, total_lines, total_bytes, start, counter, pos, reads,
                   stdout, read_errs, result>>
    /\ UNCHANGED <<cfgvars, req, total, out, rpc, pvars>>

\* File::open(filename) succeeds: the header when asked for.
OpenOk ==
    /\ pc = "open"
    /\ file_num < num_files
    /\ \E data \in Contents(SourceBound(num_files)) : cur' = data
    /\ io' \in Faults(num_files)
    /\ stdout' = IF ~quiet /\ num_files > 1
                 THEN Append(stdout, Header(file_num))
                 ELSE stdout
    /\ reads' = 0
    /\ pc' = "count"
    /\ UNCHANGED <<file_num, total_lines, total_bytes, start, counter, pos,
                   stderr, status, read_errs, result>>
    /\ UNCHANGED <<cfgvars, req, total, out, rpc, pvars>>

\* Variant that keeps the totals of the first source counted.
CountedTotals_Cached ==
    IF \E i \in 1 .. Len(status) : status[i] # "open_err"
    THEN [lines |-> total_lines, bytes |-> total_bytes]
    ELSE count_lines_bytes(cur, io)

\* count_lines_bytes(filename): the totals of the source of this iteration.
CountedTotals == count_lines_bytes(cur, io)

\* let (total_lines, total_bytes) = count_lines_bytes(filename)?
\* The source opens again for both counting passes (the snapshot the
\* emission pass reads), so the `?` has no Err to return: a read that fails
\* while counting is one more item counted.
CountLinesBytes ==
    /\ pc = "count"
    /\ total_lines' = CountedTotals.lines
    /\ total_bytes' = CountedTotals.bytes
    /\ read_errs' = IF CountPassReadErr(cur, io)
                    THEN read_errs \cup {<<file_num, "count">>}
                    ELSE read_errs
    /\ pc' = "emit"
    /\ UNCHANGED <<file_num, cur, io, start, counter, pos, reads,
                   stdout, stderr, status, result>>
    /\ UNCHANGED <<cfgvars, req, total, out, rpc, pvars>>

\* print_bytes(reader, byte, total_bytes)?
PrintBytes ==
    /\ pc = "emit"
    /\ bytes_cfg.some
    /\ LET r == get_start_index(bytes_cfg.val, total_bytes, overflow_checks)
       IN  /\ req' = bytes_cfg.val
           /\ total' = total_bytes
           /\ out' = r
           /\ IF r.panic
              THEN /\ RunAborts("panic")
                   /\ UNCHANGED <<stdout, reads>>
                   /\ UNCHANGED read_errs
              ELSE IF EmitsWindow(r.ret)
              THEN LET items == ByteItems(cur, FaultAt(io, "emit"))
                   IN  /\ stdout' = Append(stdout,
                                      Text(file_num, FromUtf8Lossy(SkipBytes(items, r.ret.v))))
                       /\ reads' = Len(items) + 1
                       /\ read_errs' = IF HasErr(items)
                                       THEN read_errs \cup {<<file_num, "emit">>}
                                       ELSE read_errs
                       /\ SourceDone
              ELSE /\ SourceDone
                   /\ UNCHANGED <<stdout, reads, read_errs>>
    /\ UNCHANGED <<cur, io, total_lines, total_bytes, start, counter, pos, stderr>>
    /\ UNCHANGED <<cfgvars, rpc, pvars>>

\* Variant that hands the byte total to print_lines.
PrintLinesTotal_Bytes == total_bytes

\* The total handed to print_lines: total_lines.
PrintLinesTotal == total_lines

\* print_lines(reader, &config.lines, total_lines)?, up to its loop.
PrintLinesStart ==
    /\ pc = "emit"
    /\ ~bytes_cfg.some
    /\ LET r == get_start_index(lines_cfg, PrintLinesTotal, overflow_checks)
       IN  /\ req' = lines_cfg
           /\ total' = PrintLinesTotal
           /\ out' = r
           /\ IF r.panic
              THEN /\ RunAborts("panic")
                   /\ UNCHANGED <<start, counter, pos>>
              ELSE IF EmitsWindow(r.ret)
              THEN /\ start' = r.ret.v
                   /\ counter' = 0
                   /\ pos' = 0
                   /\ pc' = "print_lines"
                   /\ UNCHANGED <<file_num, status, result>>
              ELSE /\ SourceDone
                   /\ UNCHANGED <<start, counter, pos>>
    /\ UNCHANGED <<cur, io, total_lines, total_bytes, reads, stdout, stderr, read_errs>>
    /\ UNCHANGED <<cfgvars, rpc, pvars>>

\* One iteration of print_lines' loop.
ReadLine ==
    /\ pc = "print_lines"
    /\ LET r == read_line(LineItems(cur, FaultAt(io, "emit")), pos)
       IN  /\ reads' = reads + 1
           /\ IF r.kind = "err"
              THEN /\ RunAborts("err")
                   /\ read_errs' = read_errs \cup {<<file_num, "emit">>}
                   /\ UNCHANGED <<counter, pos, stdout>>
              ELSE IF r.kind = "eof"
              THEN /\ SourceDone
                   /\ UNCHANGED <<counter, pos, stdout, read_errs>>
              ELSE IF SkipsLine(counter, start)
              THEN /\ counter' = counter + 1
                   /\ pos' = pos + 1
                   /\ UNCHANGED <<file_num, pc, status, result, stdout, read_errs>>
              ELSE /\ stdout' = Append(stdout, Text(file_num, r.line))
                   /\ pos' = pos + 1
                   /\ UNCHANGED <<file_num, pc, status, result, counter, read_errs>>
    /\ UNCHANGED <<cur, io, total_lines, total_bytes, start, stderr>>
    /\ UNCHANGED <<cfgvars, req, total, out, rpc, pvars>>

\* The loop is over: Ok(()).
RunReturn ==
    /\ pc = "open"
    /\ file_num = num_files
    /\ pc' = "done"
    /\ result' = "ok"
    /\ UNCHANGED <<file_num, cur, io, total_lines, total_bytes, start, counter, pos, reads,
                   stdout, stderr, status, read_errs>>
    /\ UNCHANGED <<cfgvars, req, total, out, rpc, pvars>>

Next ==
    \/ OpenErr
    \/ OpenOk
    \/ CountLinesBytes
    \/ PrintBytes
    \/ PrintLinesStart
    \/ ReadLine
    \/ RunReturn

Spec == Init /\ [][Next]_vars

\* run is sequential code on blocking reads: it always takes its next step.
SpecLive == Spec /\ WF_vars(Next)

(***************************************************************************)
(* parse_num on its own: every token up to MaxTok characters, handed to    *)
(* both implementations.                                                   *)
(***************************************************************************)
ParseInit ==
    /\ tok \in Tokens(MaxTok)
    /\ p1 = Unparsed
    /\ p2 = Unparsed
    /\ req = PlusZero
    /\ total = 0
    /\ overflow_checks = FALSE
    /\ out = NoOut
    /\ rpc = "idle"
    /\ num_files = 0
    /\ lines_cfg = TakeNum(-DefaultLines)
    /\ bytes_cfg = NoBytes
    /\ quiet = FALSE
    /\ RunStart

ParseNumMysol1 ==
    /\ p1.st = "call"
    /\ p1' = parse_num_mysol1(tok)
    /\ UNCHANGED <<tok, p2>>
    /\ UNCHANGED <<rvars, runvars>>

ParseNum ==
    /\ p2.st = "call"
    /\ p2' = parse_num(tok)
    /\ UNCHANGED <<tok, p1>>
    /\ UNCHANGED <<rvars, runvars>>

ParseNext == ParseNumMysol1 \/ ParseNum

SpecParse == ParseInit /\ [][ParseNext]_vars

(***************************************************************************)
(* parse_num followed by get_start_index: the token of --lines or --bytes  *)
(* is parsed by get_args, and the emitter resolves the parsed request      *)
(* against the total of a source.                                          *)
(***************************************************************************)
ComposeInit ==
    /\ tok \in Tokens(MaxTok)
    /\ p1 = NotParsing
    /\ p2 = Unparsed
    /\ req = PlusZero
    /\ total = 0
    /\ overflow_checks \in BOOLEAN
    /\ out = NoOut
    /\ rpc = "call"
    /\ num_files = 0
    /\ lines_cfg = TakeNum(-DefaultLines)
    /\ bytes_cfg = NoBytes
    /\ quiet = FALSE
    /\ RunStart

\* get_start_index(num_lines, total_lines) on the request get_args parsed.
ResolveParsed ==
    /\ p2.st = "ok"
    /\ rpc = "call"
    /\ \E t \in 0 .. MaxI64 :
          /\ total' = t
          /\ out' = get_start_index(p2.val, t, overflow_checks)
    /\ req' = p2.val
    /\ rpc' = "done"
    /\ UNCHANGED overflow_checks
    /\ UNCHANGED runvars
    /\ UNCHANGED pvars

ComposeNext == ParseNum \/ ResolveParsed

SpecCompose == ComposeInit /\ [][ComposeNext]_vars

(***************************************************************************)
(* Properties of get_start_index, checked under SpecResolve.               *)
(***************************************************************************)
Returned == rpc = "done"

\* Magnitude of a negative request, as a mathematical integer.
Magnitude(n) == -n

IsTakeNum == req.tag = "TakeNum"

\* C1: for every negative n (the most-negative value included) and every
\* total >= 1 with magnitude(n) > total, get_start_index returns Some(0).
C1_NegativeExceedingIsSomeZero ==
    (Returned /\ IsTakeNum /\ req.n < 0 /\ total >= 1 /\ Magnitude(req.n) > total)
        => (~out.panic /\ out.ret = Some(0))

\* C2: get_start_index never overflows: no intermediate result leaves the
\* range of its integer type, and the call returns instead of panicking.
C2_NoOverflow ==
    Returned => (~out.overflow /\ ~out.panic)

\* C3: for total == 0 get_start_index returns None for every request.
C3_EmptyIsNone ==
    (Returned /\ total = 0) => (~out.panic /\ out.ret = None)

\* C4: for every negative n and every total with 1 <= magnitude(n) <= total,
\* get_start_index returns Some(total - magnitude(n)).
C4_NegativeWithinIsTotalMinusMagnitude ==
    (Returned /\ IsTakeNum /\ req.n < 0 /\ Magnitude(req.n) <= total)
        => (~out.panic /\ out.ret = Some(total - Magnitude(req.n)))

\* C5: for every n with 1 <= n <= total, get_start_index returns Some(n - 1);
\* n == total yields Some(total - 1).
C5_PositiveWithinIsNMinusOne ==
    (Returned /\ IsTakeNum /\ 1 <= req.n /\ req.n <= total)
        => (~out.panic /\ out.ret = Some(req.n - 1))

C5_Witness ==
    Returned /\ IsTakeNum /\ req.n = total /\ total >= 2 /\ out.ret = Some(total - 1)

\* C6: for every positive n and every total >= 0 with n > total,
\* get_start_index returns None.
C6_PositiveExceedingIsNone ==
    (Returned /\ IsTakeNum /\ req.n > 0 /\ req.n > total)
        => (~out.panic /\ out.ret = None)

C6_Witness ==
    Returned /\ IsTakeNum /\ total >= 1 /\ req.n = total + 1 /\ out.ret = None

C8_TakeZeroIsNone ==
    (Returned /\ req = TakeNum(0))
        => (~out.panic /\ out.ret = None)

C8_Witness ==
    Returned /\ req = TakeNum(0) /\ total > 0 /\ out.ret = None

(***************************************************************************)
(* Properties of run, checked under Spec.                                  *)
(***************************************************************************)
RECURSIVE Flatten(_)
Flatten(ss) == IF ss = <<>> THEN <<>> ELSE Head(ss) \o Flatten(Tail(ss))

\* The text written to standard output for source i, headers left out.
RECURSIVE TextOf(_, _)
TextOf(ws, i) ==
    IF ws = <<>> THEN <<>>
    ELSE (IF Head(ws).file = i /\ Head(ws).kind = "text" THEN Head(ws).text ELSE <<>>)
         \o TextOf(Tail(ws), i)

\* The last m elements of a sequence (all of it when m exceeds its length).
LastUnits(sq, m) ==
    IF m >= Len(sq) THEN sq ELSE SubSeq(sq, Len(sq) - m + 1, Len(sq))

\* The source visited last, once run has left it (finished, or aborted in it).
LeftSource == Len(status) > 0 /\ pc \in {"open", "done"}

LastSource == Len(status) - 1

LastStatus == status[Len(status)]

\* The request run resolves for every source: the byte count when given.
ActiveRequest == IF bytes_cfg.some THEN bytes_cfg.val ELSE lines_cfg

\* C9: for a source of total units and a request TakeNum(-k), k >= 1, the
\* count pass, get_start_index and the emission pass together write exactly
\* the last min(k, total) units of the source, in order, and nothing else.
\* Units are read as the emitter reads them: lines of a source whose lines
\* decode, or bytes written as their lossy decoding; no read meets a fault.
C9_TailWritesLastUnits ==
    (/\ LeftSource
     /\ LastStatus # "open_err"
     /\ ActiveRequest.tag = "TakeNum"
     /\ ActiveRequest.n < 0
     /\ io = NoFault
     /\ (bytes_cfg.some \/ ValidUtf8(cur)))
        => /\ LastStatus = "ok"
           /\ TextOf(stdout, LastSource) =
                 IF bytes_cfg.some
                 THEN FromUtf8Lossy(LastUnits(cur, Magnitude(ActiveRequest.n)))
                 ELSE Flatten(LastUnits(SplitLines(cur), Magnitude(ActiveRequest.n)))

\* C10: a read failure on one source does not abort the batch: when run
\* ends, every source after one whose read failed has been visited.
C10_ReadFailureKeepsBatch ==
    (pc = "done" /\ result # "panic")
        => \A e \in read_errs :
              \A j \in (e[1] + 1) .. (num_files - 1) : j < Len(status)

\* The print! calls made for source i, in order: the text of each.
RECURSIVE LineWrites(_, _)
LineWrites(ws, i) ==
    IF ws = <<>> THEN <<>>
    ELSE (IF Head(ws).file = i /\ Head(ws).kind = "text" THEN <<Head(ws).text>> ELSE <<>>)
         \o LineWrites(Tail(ws), i)

\* The last source was opened and some emitter ran on it to its return.
EmitterReturned == LeftSource /\ LastStatus \in {"ok", "err"}

\* C11: a read error while counting or emitting is propagated: neither
\* count_lines_bytes nor an emitter returns Ok after one of its reads
\* returned an error.
C11_ReadErrorsPropagate ==
    /\ (pc = "emit" => <<file_num, "count">> \notin read_errs)
    /\ \A i \in 1 .. Len(status) :
          status[i] = "ok" => <<i - 1, "emit">> \notin read_errs

C13_BytesFromStart ==
    (LeftSource /\ LastStatus = "ok" /\ bytes_cfg.some /\ out.ret.some)
        => TextOf(stdout, LastSource) =
              FromUtf8Lossy(SubSeq(cur, out.ret.v + 1, Len(cur)))

\* C14: when get_start_index returns None the emitter makes no read on the
\* emission reader, writes nothing and returns Ok.
C14_NoneReadsAndWritesNothing ==
    (LeftSource /\ LastStatus # "open_err" /\ ~out.panic /\ ~out.ret.some)
        => /\ LastStatus = "ok"
           /\ reads = 0
           /\ LineWrites(stdout, LastSource) = <<>>

C14_Witness ==
    /\ LeftSource
    /\ LastStatus = "ok"
    /\ ~out.panic
    /\ out.ret = None
    /\ Len(cur) = MaxLen
    /\ reads = 0

(***************************************************************************)
(* Properties of parse_num, checked under SpecParse.                       *)
(***************************************************************************)
Parsed == p1.st # "call" /\ p2.st # "call"

IsDigitString(cs) == cs # <<>> /\ \A i \in 1 .. Len(cs) : cs[i] \in AsciiDigit

\* A token of the grammar: an optional sign, then one or more ASCII digits.
WellFormed(cs) ==
    \/ IsDigitString(cs)
    \/ cs # <<>> /\ cs[1] \in {"+", "-"} /\ IsDigitString(Tail(cs))

RECURSIVE NumberOf(_)
NumberOf(ds) ==
    IF ds = <<>> THEN 0
    ELSE 10 * NumberOf(SubSeq(ds, 1, Len(ds) - 1)) + DigitVal(ds[Len(ds)])

\* The number a well-formed token stands for: positive with "+", negative
\* with "-" and with no sign.
SignedValue(cs) ==
    IF cs[1] = "+" THEN NumberOf(Tail(cs))
    ELSE IF cs[1] = "-" THEN -NumberOf(Tail(cs))
    ELSE -NumberOf(cs)

\* C15: an accepted token without a sign parses to what the same digits
\* with "-" in front parse to, in both implementations; the text of
\* i64::MAX gives TakeNum(i64::MIN + 1) and the text of i64::MAX + 1 gives
\* TakeNum(i64::MIN).
C15_UnsignedIsNegative ==
    Parsed =>
        /\ (IsDigitString(tok) /\ p2.st = "ok") => p2 = parse_num(<<"-">> \o tok)
        /\ (IsDigitString(tok) /\ p1.st = "ok") => p1 = parse_num_mysol1(<<"-">> \o tok)
        /\ tok = Decimal(MaxI64) =>
               p1 = ParseOk(TakeNum(MinI64 + 1)) /\ p2 = ParseOk(TakeNum(MinI64 + 1))
        /\ tok = Decimal(MaxI64 + 1) =>
               p1 = ParseOk(TakeNum(MinI64)) /\ p2 = ParseOk(TakeNum(MinI64))

C15_Witness ==
    /\ tok = Decimal(MaxI64 + 1)
    /\ p1 = ParseOk(TakeNum(MinI64))
    /\ p2 = ParseOk(TakeNum(MinI64))

\* C16: "+0" parses to PlusZero, "0" and "-0" parse to TakeNum(0).
C16_ZeroTokens ==
    Parsed =>
        /\ tok = <<"+", "0">> => p1 = ParseOk(PlusZero) /\ p2 = ParseOk(PlusZero)
        /\ tok \in {<<"0">>, <<"-", "0">>} =>
               p1 = ParseOk(TakeNum(0)) /\ p2 = ParseOk(TakeNum(0))

C16_Witness ==
    /\ tok = <<"0">>
    /\ p1 = ParseOk(TakeNum(0))
    /\ p2 = ParseOk(TakeNum(0))

\* C17: PlusZero is returned for the literal token "+0" only; every other
\* spelling of zero gives TakeNum(0).
C17_PlusZeroOnlyForLiteral ==
    Parsed =>
        /\ p1 = ParseOk(PlusZero) => tok = <<"+", "0">>
        /\ p2 = ParseOk(PlusZero) => tok = <<"+", "0">>
        /\ (WellFormed(tok) /\ SignedValue(tok) = 0 /\ tok # <<"+", "0">>) =>
               p1 = ParseOk(TakeNum(0)) /\ p2 = ParseOk(TakeNum(0))

\* C18: parse_num succeeds exactly on the tokens made of an optional sign and
\* one or more ASCII digits whose number, negative when there is no sign,
\* fits in an i64; every other token fails.
C18_AcceptsExactlyTheGrammar ==
    Parsed =>
        /\ p2.st = "ok" <=> (WellFormed(tok) /\ SignedValue(tok) \in I64)
        /\ p1.st = "ok" <=> (WellFormed(tok) /\ SignedValue(tok) \in I64)

C18_Witness ==
    /\ tok = <<"-">> \o Decimal(-MinI64)
    /\ p1 = ParseOk(TakeNum(MinI64))
    /\ p2 = ParseOk(TakeNum(MinI64))

\* C19: when parse_num fails, the error's text is the token it was given.
C19_ErrorIsTheToken ==
    Parsed =>
        /\ p2.st = "err" => p2.err = tok
        /\ p1.st = "err" => p1.err = tok

C19_Witness ==
    /\ tok = Decimal(MaxI64 + 2)
    /\ p1.st = "err" /\ p1.err = tok
    /\ p2.st = "err" /\ p2.err = tok

\* C20: a well-formed token whose number is outside i64 is rejected with the
\* token as the error; it is never wrapped or saturated into a count.
C20_OutOfRangeRejected ==
    (Parsed /\ WellFormed(tok) /\ SignedValue(tok) \notin I64) =>
        /\ p2 = ParseErr(tok)
        /\ p1 = ParseErr(tok)

C20_Witness ==
    /\ tok = <<"+">> \o Decimal(MaxI64 + 1)
    /\ p1 = ParseErr(tok)
    /\ p2 = ParseErr(tok)

\* C21 as stated: the text of i64::MAX parses to the count i64::MAX, and the
\* text of i64::MIN parses to TakeNum(i64::MIN).
C21_MaxTextRoundTrips ==
    Parsed =>
        /\ tok = Decimal(MaxI64) => p2 = ParseOk(TakeNum(MaxI64))
        /\ tok = <<"-">> \o Decimal(-MinI64) => p2 = ParseOk(TakeNum(MinI64))

\* C21 amended: "+" followed by the text of i64::MAX parses to
\* TakeNum(i64::MAX); the text of i64::MAX without a sign parses to
\* TakeNum(-i64::MAX); the text of i64::MIN parses to TakeNum(i64::MIN).
\* Each call returns Ok.
C21_BoundaryTexts ==
    Parsed =>
        /\ tok = <<"+">> \o Decimal(MaxI64) =>
               p1 = ParseOk(TakeNum(MaxI64)) /\ p2 = ParseOk(TakeNum(MaxI64))
        /\ tok = Decimal(MaxI64) =>
               p1 = ParseOk(TakeNum(-MaxI64)) /\ p2 = ParseOk(TakeNum(-MaxI64))
        /\ tok = <<"-">> \o Decimal(-MinI64) =>
               p1 = ParseOk(TakeNum(MinI64)) /\ p2 = ParseOk(TakeNum(MinI64))

C21_Witness ==
    /\ tok = <<"+">> \o Decimal(MaxI64)
    /\ p1 = ParseOk(TakeNum(MaxI64))
    /\ p2 = ParseOk(TakeNum(MaxI64))

(***************************************************************************)
(* Properties of parse_num followed by get_start_index, checked under      *)
(* SpecCompose.                                                            *)
(***************************************************************************)
Max(a, b) == IF a >= b THEN a ELSE b

\* C22: on a source of total T >= 1 an unsigned token of value k >= 1
\* resolves to Some(max(T - k, 0)); a "+"-signed token of value k >= 1
\* resolves to Some(k - 1) when k <= T and to None when k > T; for T = 10,
\* "1" -> Some(9), "+1" -> Some(0), "-3" -> Some(7), "20" -> Some(0),
\* "+20" -> None; "+0" -> None for T = 0 and Some(0) for T = 5.
C22_ParseThenResolve ==
    (rpc = "done" /\ p2.st = "ok") =>
        /\ ~out.panic
        /\ (IsDigitString(tok) /\ NumberOf(tok) >= 1 /\ total >= 1) =>
               out.ret = Some(Max(total - NumberOf(tok), 0))
        /\ (tok[1] = "+" /\ NumberOf(Tail(tok)) >= 1) =>
               out.ret = IF NumberOf(Tail(tok)) <= total
                         THEN Some(NumberOf(Tail(tok)) - 1)
                         ELSE None
        /\ (total = 10 /\ tok = <<"1">>) => out.ret = Some(9)
        /\ (total = 10 /\ tok = <<"+", "1">>) => out.ret = Some(0)
        /\ (total = 10 /\ tok = <<"-", "3">>) => out.ret = Some(7)
        /\ (total = 10 /\ tok = <<"2", "0">>) => out.ret = Some(0)
        /\ (total = 10 /\ tok = <<"+", "2", "0">>) => out.ret = None
        /\ (total = 0 /\ tok = <<"+", "0">>) => out.ret = None
        /\ (total = 5 /\ tok = <<"+", "0">>) => out.ret = Some(0)

(***************************************************************************)
(* Further properties of run, checked under Spec.                          *)
(***************************************************************************)
\* The number of items the counting passes of the current source see.
LinesOfSource == Len(LineItems(cur, FaultAt(io, "count_lines")))

BytesOfSource == Len(ByteItems(cur, FaultAt(io, "count_bytes")))

WritesText == stdout' # stdout /\ stdout'[Len(stdout')].kind = "text"

\* C23: for each source that opens, the count pass comes first, then the
\* resolution of the start index, then the emission; the totals are counted
\* from the source of this iteration and the resolution uses them.
C23_CountResolveEmit ==
    [][/\ pc' = "count" => pc = "open"
       /\ pc' = "emit" =>
             /\ pc = "count"
             /\ total_lines' = LinesOfSource
             /\ total_bytes' = BytesOfSource
       /\ pc = "emit" =>
             /\ req' = ActiveRequest
             /\ total' = IF bytes_cfg.some THEN BytesOfSource ELSE LinesOfSource
             /\ out' = get_start_index(req', total', overflow_checks)
       /\ pc' = "print_lines" => pc \in {"emit", "print_lines"}
       /\ WritesText =>
             /\ pc \in {"emit", "print_lines"}
             /\ stdout'[Len(stdout')].file = file_num
             /\ out'.ret.some
       /\ cur' # cur => pc = "open"]_vars

C23_Witness ==
    /\ num_files = 2
    /\ status = <<"ok", "ok">>
    /\ ~bytes_cfg.some
    /\ TextOf(stdout, 0) # <<>>
    /\ cur = <<>>
    /\ total = 0

\* C24: byte mode emission does not fail on any content: for every byte
\* sequence, valid UTF-8 or not, print_bytes returns Ok.
C24_ByteModeReturnsOk ==
    (LeftSource /\ LastStatus # "open_err" /\ bytes_cfg.some) => LastStatus = "ok"

\* C25 (checked under SpecResolve): whenever get_start_index returns
\* Some(i), 0 <= i <= total - 1: a Some selects at least one unit and never
\* an index at or past the end.
C25_SomeIsBelowTotal ==
    (Returned /\ out.ret.some) => (0 <= out.ret.v /\ out.ret.v < total)

C25_Witness ==
    /\ Returned
    /\ IsTakeNum
    /\ req.n < 0
    /\ Magnitude(req.n) > total
    /\ total = 1
    /\ out.ret = Some(0)

\* C26 (checked under SpecParse): the parse_num of lib_mysol1.rs and the
\* parse_num of lib_mysol2.rs agree on every token: both fail with the same
\* error text or both succeed with the same TakeValue.
C26_ImplementationsAgree ==
    Parsed => p1 = p2

\* C27: a source that fails to open writes nothing to standard output; run
\* names it on the error stream, goes on to the next source, and its own
\* result is not made an error by that failure.
C27_OpenFailureIsSkipped ==
    \A i \in 1 .. Len(status) :
        status[i] = "open_err" =>
            /\ \A j \in 1 .. Len(stdout) : stdout[j].file # i - 1
            /\ \E j \in 1 .. Len(stderr) : stderr[j] = i - 1
            /\ file_num >= i
            /\ result \notin {"running", "ok"} => (i < Len(status) /\ LastStatus = result)
            /\ pc = "done" => (i < Len(status) \/ (result = "ok" /\ file_num = num_files))

C27_Witness ==
    /\ status = <<"open_err", "ok">>
    /\ stderr = <<0>>
    /\ stdout # <<>>
    /\ pc = "done"
    /\ result = "ok"

\* C28: headers are written only when quiet is off and more than one file
\* was requested; a header comes before any content of its source; the
\* blank separator line is written only between the outputs of two sources,
\* so standard output never begins with it.
C28_HeadersAndSeparators ==
    /\ \A j \in 1 .. Len(stdout) :
          stdout[j].kind = "header" => (~quiet /\ num_files > 1)
    /\ \A j, k \in 1 .. Len(stdout) :
          (stdout[j].kind = "header" /\ stdout[k].kind = "text"
              /\ stdout[j].file = stdout[k].file) => j < k
    /\ \A j \in 1 .. Len(stdout) : stdout[j].sep => j > 1

\* C29: for each source exactly one emission mode runs: byte mode, resolving
\* the byte request against the byte total, when a byte count was given;
\* otherwise line mode, resolving the line request against the line total.
\* The two modes never both emit for one source.
C29_OneModePerSource ==
    [][/\ pc = "emit" =>
             IF bytes_cfg.some
             THEN req' = bytes_cfg.val /\ total' = BytesOfSource /\ pc' # "print_lines"
             ELSE req' = lines_cfg /\ total' = LinesOfSource /\ stdout' = stdout
       /\ pc = "print_lines" => ~bytes_cfg.some
       /\ WritesText =>
             \/ pc = "emit" /\ bytes_cfg.some
             \/ pc = "print_lines" /\ ~bytes_cfg.some]_vars

C29_Witness ==
    /\ LeftSource
    /\ LastStatus = "ok"
    /\ ~bytes_cfg.some
    /\ io = NoFault
    /\ cur = <<"a", "a">>
    /\ total = 1
    /\ total_bytes = 2
    /\ TextOf(stdout, LastSource) = cur

\* C30 (checked under SpecLive): processing terminates; when every read
\* succeeds, the print_lines loop ends after reading each line of the source
\* once, at the first read that returns zero bytes, and run visits the
\* sources once each, in argument order, then returns.
C30_RunTerminates ==
    /\ <>(pc = "done")
    /\ [][file_num' \in {file_num, file_num + 1}]_vars
    /\ []((pc = "done" /\ read_errs = {}) =>
             /\ result = "ok"
             /\ file_num = num_files
             /\ Len(status) = num_files)
    /\ []((LeftSource /\ LastStatus = "ok" /\ read_errs = {}
              /\ ~bytes_cfg.some /\ out.ret.some) =>
             /\ pos = Len(SplitLines(cur))
             /\ reads = Len(SplitLines(cur)) + 1)

====
